---- MODULE Spec2Model ----
(***************************************************************************)
(* Model of tradingview_importer.py: the line parser, the timestamp        *)
(* canonicalisation (ensure_tz), the upsert/sort/persist of update_csv and *)
(* the input loop of main.                                                 *)
(*                                                                         *)
(* Time is counted in ticks (TicksPerSecond per second).  Wall-clock 0 is  *)
(* 2024-03-10 00:00:00, the day US/Eastern switches from EST to EDT at     *)
(* 02:00 wall time (07:00 UTC).  A datetime is a record                    *)
(*   [tz, wall, off]: tz = "none" (naive), "fixed" (explicit offset) or    *)
(*   "eastern" (pytz US/Eastern); its instant is wall - off.               *)
(* A timestamp text is [k, wall, off]: k = "naive", "offset" or "bad".     *)
(* A number text is [k, v]: k = "dec" (decimal text, v in tenths), "nan",  *)
(* "inf" or "junk".  A float / CSV cell is [k, v]: k = "int", "float",     *)
(* "nan" or "inf", v in tenths.  Data-frame semantics are those of         *)
(* pandas 2.x (silent upcast on assignment, empty frames ignored when      *)
(* concat resolves dtypes).                                                *)
(***************************************************************************)
EXTENDS Integers, Sequences, FiniteSets, TLC

\* ---------------------------------------------------------------- bounds
TicksPerSecond == 2
MaxLines == 2
MaxRows == 2
MaxRuns == 2

\* ------------------------------------------------------------ time, zones
Second == TicksPerSecond
Hour == 3600 * Second
EST == 0 - 5 * Hour
EDT == 0 - 4 * Hour

\* offset pytz's US/Eastern gives a naive wall time (localize, is_dst=False);
\* a wall time in the skipped hour 02:00-03:00 gets the EST instant, and no
\* input of the model lies in that hour
EasternOffsetOfWall(wall) == IF wall >= 3 * Hour THEN EDT ELSE EST

\* offset of US/Eastern at a UTC instant (tz conversion)
EasternOffsetAtUtc(utc) == IF utc >= 7 * Hour THEN EDT ELSE EST

localize(dt) ==
  [tz |-> "eastern", wall |-> dt.wall, off |-> EasternOffsetOfWall(dt.wall)]

Utc(ts) == ts.wall - ts.off

\* pd.to_datetime on a timestamp text (defined when the text parses)
CanParseTs(t) == t.k # "bad"
to_datetime(t) ==
  IF t.k = "naive" THEN [tz |-> "none", wall |-> t.wall, off |-> 0]
  ELSE [tz |-> "fixed", wall |-> t.wall, off |-> t.off]

IsStr(x) == "k" \in DOMAIN x

ensure_tz(x) ==
  LET dt == IF IsStr(x) THEN to_datetime(x) ELSE x
  IN IF dt.tz = "none" THEN localize(dt) ELSE dt

\* strftime('%Y-%m-%d %H:%M:%S%z') followed by the colon insertion: the
\* wall clock cut to whole seconds, and the UTC offset
FormatTs(ts) ==
  [k |-> "offset", wall |-> (ts.wall \div Second) * Second, off |-> ts.off]

\* ------------------------------------------------------------ line parser
None == [none |-> TRUE]

FloatOk(s) == s.k # "junk"
float(s) ==
  IF s.k = "dec" THEN [k |-> "float", v |-> s.v] ELSE [k |-> s.k, v |-> 0]

IsFinite(x) == x.k \in {"int", "float"}

parse_tradingview_line(line) ==
  IF Len(line) # 5 THEN None
  ELSE IF \E i \in 2..5 : ~FloatOk(line[i]) THEN None
  ELSE IF ~CanParseTs(line[1]) THEN None
  ELSE LET ts_dt == to_datetime(line[1])
       IN [ts_event |-> IF ts_dt.tz = "none" THEN localize(ts_dt) ELSE ts_dt,
           open |-> float(line[2]), high |-> float(line[3]),
           low |-> float(line[4]), close |-> float(line[5])]

\* ------------------------------------------------------------ data frame
PriceCols == {"open", "high", "low", "close"}
NumCols == PriceCols \cup {"volume"}

ObjectDtypes ==
  [ts_event |-> [k |-> "object", off |-> 0], open |-> "object",
   high |-> "object", low |-> "object", close |-> "object",
   volume |-> "object"]

\* pd.DataFrame(columns=[...])
EmptyFrame == [rows |-> <<>>, dt |-> ObjectDtypes]

AsFloat(c) == IF c.k = "int" THEN [k |-> "float", v |-> c.v] ELSE c

Trunc(v) == IF v >= 0 THEN (v \div 10) * 10 ELSE 0 - (((0 - v) \div 10) * 10)

\* Series.astype on one cell of a new row (errors='ignore')
AstypeNum(c, dtype) ==
  IF dtype = "int64"
    THEN IF IsFinite(c) THEN [k |-> "int", v |-> Trunc(c.v)] ELSE c
    ELSE IF dtype = "float64" THEN AsFloat(c) ELSE c

TzDtypeOf(ts) ==
  [k |-> ts.tz, off |-> IF ts.tz = "fixed" THEN ts.off ELSE 0]

AstypeTs(ts, dtype) ==
  IF dtype.k = "object" THEN ts
  ELSE IF dtype.k = "eastern"
    THEN [tz |-> "eastern", wall |-> Utc(ts) + EasternOffsetAtUtc(Utc(ts)),
          off |-> EasternOffsetAtUtc(Utc(ts))]
    ELSE [tz |-> "fixed", wall |-> Utc(ts) + dtype.off, off |-> dtype.off]

SeqToSet(s) == {s[i] : i \in 1..Len(s)}

\* dtype read_csv / concat gives a numeric column holding these cells
NumDtype(cells) ==
  IF \A c \in cells : c.k = "int" THEN "int64" ELSE "float64"

\* dtype Series.apply(ensure_tz) gives the ts_event column
TsDtype(tss) ==
  IF tss # {} /\ \A a, b \in tss : TzDtypeOf(a) = TzDtypeOf(b)
    THEN TzDtypeOf(CHOOSE a \in tss : TRUE)
    ELSE [k |-> "object", off |-> 0]

\* a frame from rows whose cells still carry their own kinds: resolve the
\* column dtypes and hold every cell in its column's dtype
Framed(rows) ==
  IF rows = <<>> THEN EmptyFrame ELSE
  LET dts == [c \in NumCols |-> NumDtype({rows[i][c] : i \in 1..Len(rows)})]
      tsd == TsDtype({rows[i].ts_event : i \in 1..Len(rows)})
      cell(r, c) == IF dts[c] = "float64" THEN AsFloat(r[c]) ELSE r[c]
  IN [rows |-> [i \in 1..Len(rows) |->
                  [ts_event |-> rows[i].ts_event,
                   open |-> cell(rows[i], "open"),
                   high |-> cell(rows[i], "high"),
                   low |-> cell(rows[i], "low"),
                   close |-> cell(rows[i], "close"),
                   volume |-> cell(rows[i], "volume")]],
      dt |-> [ts_event |-> tsd, open |-> dts["open"], high |-> dts["high"],
              low |-> dts["low"], close |-> dts["close"],
              volume |-> dts["volume"]]]

\* ------------------------------------------------------------- update_csv
\* os.path.exists(csv_file) and os.path.getsize(csv_file) > 0
Readable(f) == f.kind = "csv"

\* pd.read_csv / df['ts_event'].apply(ensure_tz) raises: no ts_event column
\* (KeyError) or a cell pd.to_datetime cannot parse
LoadRaises(f) ==
  ~f.hasTs \/ \E i \in 1..Len(f.rows) : ~CanParseTs(f.rows[i].ts_event)

LoadStatus(f) ==
  IF ~Readable(f) THEN "not_found_or_empty"
  ELSE IF LoadRaises(f) THEN "malformed" ELSE "loaded"

\* mutant of Load: rows with an unparseable timestamp cell are skipped and
\* the other rows kept
LoadSkipsBadRows(f) ==
  IF ~Readable(f) \/ ~f.hasTs THEN EmptyFrame
  ELSE LET good == SelectSeq(f.rows, LAMBDA r : CanParseTs(r.ts_event))
       IN Framed([i \in 1..Len(good) |->
                    [good[i] EXCEPT !.ts_event = ensure_tz(@)]])

Load(f) ==
  IF LoadStatus(f) # "loaded" THEN EmptyFrame
  ELSE Framed([i \in 1..Len(f.rows) |->
                 [f.rows[i] EXCEPT !.ts_event = ensure_tz(@)]])

\* mutant of Existing: the rendered wall clock and offset are compared
ExistingSameText(df, timestamp) ==
  {i \in 1..Len(df.rows) : df.rows[i].ts_event = timestamp}

\* existing = df['ts_event'] == timestamp  (instants are compared)
Existing(df, timestamp) ==
  {i \in 1..Len(df.rows) : Utc(df.rows[i].ts_event) = Utc(timestamp)}

\* df.loc[existing, col] = val: an int64 column keeps a whole finite value
\* as an integer and is upcast to float64 by any other value
SetCol(df, col, idx, val) ==
  LET keepsInt == df.dt[col] = "int64" /\ IsFinite(val) /\ val.v % 10 = 0
      upcast == df.dt[col] = "int64" /\ ~keepsInt
      new == IF keepsInt THEN [k |-> "int", v |-> val.v] ELSE val
      old(c) == IF upcast THEN AsFloat(c) ELSE c
  IN [rows |-> [i \in 1..Len(df.rows) |->
                  [df.rows[i] EXCEPT ![col] = IF i \in idx THEN new ELSE old(@)]],
      dt |-> [df.dt EXCEPT ![col] = IF upcast THEN "float64" ELSE @]]

\* mutant of Overwrite: the whole matched row is replaced by a fresh one
OverwriteResetsVolume(df, idx, data) ==
  SetCol(SetCol(SetCol(SetCol(SetCol(df, "open", idx, data.open),
                              "high", idx, data.high),
                       "low", idx, data.low),
                "close", idx, data.close),
         "volume", idx, [k |-> "float", v |-> 0])

Overwrite(df, idx, data) ==
  SetCol(SetCol(SetCol(SetCol(df, "open", idx, data.open),
                       "high", idx, data.high),
                "low", idx, data.low),
         "close", idx, data.close)

NewRow(timestamp, data) ==
  [ts_event |-> timestamp, open |-> data.open, high |-> data.high,
   low |-> data.low, close |-> data.close, volume |-> [k |-> "float", v |-> 0]]

\* new_row.astype(df.dtypes.to_dict(), errors='ignore')
AstypeRow(r, dt) ==
  [ts_event |-> AstypeTs(r.ts_event, dt.ts_event),
   open |-> AstypeNum(r.open, dt.open), high |-> AstypeNum(r.high, dt.high),
   low |-> AstypeNum(r.low, dt.low), close |-> AstypeNum(r.close, dt.close),
   volume |-> AstypeNum(r.volume, dt.volume)]

\* pd.concat([df, new_row], ignore_index=True)
Concat(df, r) == Framed(Append(df.rows, r))

Insert(df, timestamp, data) ==
  LET new_row == NewRow(timestamp, data)
  IN Concat(df, IF df.rows # <<>> THEN AstypeRow(new_row, df.dt) ELSE new_row)

\* one iteration of the loop over tradingview_data
Upsert(df, data) ==
  LET timestamp == ensure_tz(data.ts_event)
      existing == Existing(df, timestamp)
  IN IF existing # {} THEN Overwrite(df, existing, data)
     ELSE Insert(df, timestamp, data)

\* the frame after load and after each iteration: Frames(..)[i + 1] is the
\* frame after the first i entries
RECURSIVE Frames(_, _)
Frames(df, batch) ==
  IF batch = <<>> THEN <<df>>
  ELSE <<df>> \o Frames(Upsert(df, Head(batch)), Tail(batch))

\* df.sort_values('ts_event'): ascending by instant, equal instants keep
\* their order
RECURSIVE InsertSorted(_, _)
InsertSorted(sorted, r) ==
  IF sorted = <<>> THEN <<r>>
  ELSE IF Utc(sorted[Len(sorted)].ts_event) <= Utc(r.ts_event)
    THEN Append(sorted, r)
    ELSE Append(InsertSorted(SubSeq(sorted, 1, Len(sorted) - 1), r),
                sorted[Len(sorted)])

RECURSIVE SortRows(_)
SortRows(rows) ==
  IF rows = <<>> THEN <<>>
  ELSE InsertSorted(SortRows(SubSeq(rows, 1, Len(rows) - 1)), rows[Len(rows)])

\* mutant of sort_values: the sorted frame is not assigned back
sort_values_dropped(df) == df

sort_values(df) == [df EXCEPT !.rows = SortRows(df.rows)]

\* df_to_save with ts_event rendered as text, as written by to_csv
to_csv(df) ==
  [kind |-> "csv", hasTs |-> TRUE,
   rows |-> [i \in 1..Len(df.rows) |->
               [df.rows[i] EXCEPT !.ts_event = FormatTs(@)]]]

\* ------------------------------------------------------------------ inputs
Naive(w) == [k |-> "naive", wall |-> w, off |-> 0]
Offs(w, o) == [k |-> "offset", wall |-> w, off |-> o]
BadTs == [k |-> "bad", wall |-> 0, off |-> 0]
Dec(v) == [k |-> "dec", v |-> v]
NanTxt == [k |-> "nan", v |-> 0]
InfTxt == [k |-> "inf", v |-> 0]
Junk == [k |-> "junk", v |-> 0]

P1 == <<Dec(1000), Dec(1010), Dec(990), Dec(1005)>>
P2 == <<Dec(1050), Dec(1060), Dec(1040), Dec(1055)>>

\* the lines a user may enter: 01:00 naive (EST), 06:00+00:00 (the same
\* instant, other prices), 01:00 plus one tick, 05:00 naive (EDT) with
\* not-a-number and infinity tokens, a 3-field line, an unparseable
\* timestamp and an unparseable number
Lines ==
  { <<Naive(Hour)>> \o P1,
    <<Offs(6 * Hour, 0)>> \o P2,
    <<Naive(Hour + 1)>> \o P1,
    <<Naive(5 * Hour), NanTxt, Dec(1060), Dec(1040), InfTxt>>,
    <<Naive(Hour), Dec(1015), Dec(1020)>>,
    <<BadTs>> \o P1,
    <<Naive(5 * Hour), Dec(1000), Junk, Dec(990), Dec(1005)>> }

Cell(k, v) == [k |-> k, v |-> v]

\* rows a pre-existing table file may hold: a float-typed row at
\* 01:00-05:00 and an integer-typed row with the naive timestamp 05:00 (EDT)
FileRows ==
  { [ts_event |-> Offs(Hour, EST), open |-> Cell("float", 1000),
     high |-> Cell("float", 1010), low |-> Cell("float", 990),
     close |-> Cell("float", 1005), volume |-> Cell("int", 12000)],
    [ts_event |-> Naive(5 * Hour), open |-> Cell("int", 1000),
     high |-> Cell("int", 1010), low |-> Cell("int", 990),
     close |-> Cell("int", 1000), volume |-> Cell("float", 75)] }

\* a row whose timestamp cell does not parse
BadRow ==
  [ts_event |-> BadTs, open |-> Cell("float", 1000),
   high |-> Cell("float", 1010), low |-> Cell("float", 990),
   close |-> Cell("float", 1005), volume |-> Cell("int", 0)]

SeqsUpTo(S, n) == UNION {[1..m -> S] : m \in 0..n}

\* the table file a first run may find: missing, of size 0, without a
\* ts_event column, a table of up to MaxRows rows (keys possibly repeated),
\* or a table with an unparseable timestamp cell
Files ==
  { [kind |-> "missing", hasTs |-> FALSE, rows |-> <<>>],
    [kind |-> "empty", hasTs |-> FALSE, rows |-> <<>>],
    [kind |-> "csv", hasTs |-> FALSE, rows |-> <<>>] }
  \cup { [kind |-> "csv", hasTs |-> TRUE, rows |-> r] :
           r \in SeqsUpTo(FileRows, MaxRows) }
  \cup { [kind |-> "csv", hasTs |-> TRUE, rows |-> Append(r, BadRow)] :
           r \in SeqsUpTo(FileRows, 1) }

\* ------------------------------------------------------------------- state
VARIABLES
  file,        \* the table file historical_ohlcv_15m.csv
  pc,          \* "input": main is in its input loop; "done": main has ended
  run,         \* number of the current run of the program
  used,        \* lines entered over all runs
  entered,     \* the lines entered in this run, in order
  tradingview_data,  \* main's list of parsed lines
  rejected,    \* the lines a diagnostic was printed for in this run
  startFile,   \* the table file as this run found it
  frames,      \* update_csv's df after load and after each loop iteration
  outcome,     \* how the run ended
  prev         \* the lines and the outcome of the previous run

vars == <<file, pc, run, used, entered, tradingview_data, rejected,
          startFile, frames, outcome, prev>>

Init ==
  /\ file \in Files
  /\ pc = "input"
  /\ run = 1
  /\ used = 0
  /\ entered = <<>>
  /\ tradingview_data = <<>>
  /\ rejected = <<>>
  /\ startFile = file
  /\ frames = <<>>
  /\ outcome = "none"
  /\ prev = [entered |-> <<>>, outcome |-> "none"]

\* mutant of ReadLine: a rejected line empties the batch collected so far
ReadLineRejectEmptiesBatch(line) ==
  /\ pc = "input"
  /\ used < MaxLines
  /\ used' = used + 1
  /\ entered' = Append(entered, line)
  /\ LET parsed_data == parse_tradingview_line(line)
     IN IF parsed_data # None
          THEN /\ tradingview_data' = Append(tradingview_data, parsed_data)
               /\ UNCHANGED rejected
          ELSE /\ rejected' = Append(rejected, line)
               /\ tradingview_data' = <<>>
  /\ UNCHANGED <<file, pc, run, startFile, frames, outcome, prev>>

\* one iteration of main's input loop on a non-empty line
ReadLine(line) ==
  /\ pc = "input"
  /\ used < MaxLines
  /\ used' = used + 1
  /\ entered' = Append(entered, line)
  /\ LET parsed_data == parse_tradingview_line(line)
     IN IF parsed_data # None
          THEN /\ tradingview_data' = Append(tradingview_data, parsed_data)
               /\ UNCHANGED rejected
          ELSE /\ rejected' = Append(rejected, line)
               /\ UNCHANGED tradingview_data
  /\ UNCHANGED <<file, pc, run, startFile, frames, outcome, prev>>

\* the empty line ends the loop with some valid data: update_csv loads,
\* upserts, sorts and writes; the write succeeds or raises
FinishWithData(ok) ==
  /\ pc = "input"
  /\ tradingview_data # <<>>
  /\ LET fr == Frames(Load(file), tradingview_data)
         df == sort_values(fr[Len(fr)])
     IN /\ frames' = fr
        /\ file' = IF ok THEN to_csv(df) ELSE file
        /\ outcome' = IF ok THEN "updated" ELSE "write_failed"
  /\ pc' = "done"
  /\ UNCHANGED <<run, used, entered, tradingview_data, rejected, startFile,
                 prev>>

\* mutant of FinishNoData: update_csv is called with the empty batch too
FinishNoDataWrites ==
  /\ pc = "input"
  /\ tradingview_data = <<>>
  /\ frames' = <<Load(file)>>
  /\ file' = to_csv(sort_values(Load(file)))
  /\ outcome' = "updated"
  /\ pc' = "done"
  /\ UNCHANGED <<run, used, entered, tradingview_data, rejected, startFile,
                 prev>>

\* the empty line ends the loop with no valid data
FinishNoData ==
  /\ pc = "input"
  /\ tradingview_data = <<>>
  /\ outcome' = "no_valid_data"
  /\ pc' = "done"
  /\ UNCHANGED <<file, run, used, entered, tradingview_data, rejected,
                 startFile, frames, prev>>

\* the program is started again on the same table file (a run whose write
\* raised left the file as it found it, and is not followed further)
NewRun ==
  /\ pc = "done"
  /\ outcome # "write_failed"
  /\ run < MaxRuns
  /\ run' = run + 1
  /\ pc' = "input"
  /\ prev' = [entered |-> entered, outcome |-> outcome]
  /\ entered' = <<>>
  /\ tradingview_data' = <<>>
  /\ rejected' = <<>>
  /\ startFile' = file
  /\ frames' = <<>>
  /\ outcome' = "none"
  /\ UNCHANGED <<file, used>>

Next ==
  \/ \E line \in Lines : ReadLine(line)
  \/ \E ok \in BOOLEAN : FinishWithData(ok)
  \/ FinishNoData
  \/ NewRun

Spec == Init /\ [][Next]_vars

\* ------------------------------------------------------- claim vocabulary
Merged == frames[Len(frames)]
Loaded == frames[1]
Ran == pc = "done" /\ frames # <<>>
Updated == pc = "done" /\ outcome = "updated"

Key(r) == Utc(r.ts_event)
DataKey(d) == Utc(ensure_tz(d.ts_event))
\* the key a row of the table file has once it is loaded again
PersistedKey(r) == Utc(ensure_tz(r.ts_event))
RowsWithKey(df, k) == {i \in 1..Len(df.rows) : Key(df.rows[i]) = k}
BatchKeys == {DataKey(tradingview_data[i]) : i \in 1..Len(tradingview_data)}
EntriesWithKey(k) ==
  {i \in 1..Len(tradingview_data) : DataKey(tradingview_data[i]) = k}
Max(S) == CHOOSE x \in S : \A y \in S : y <= x
LastEntry(k) == tradingview_data[Max(EntriesWithKey(k))]

SameValue(a, b) ==
  IF IsFinite(a) /\ IsFinite(b) THEN a.v = b.v ELSE a.k = b.k
SamePrices(r, d) == \A c \in PriceCols : SameValue(r[c], d[c])
IsZero(c) == IsFinite(c) /\ c.v = 0

\* ---------------------------------------------------------------- C1
C1Case(k) ==
  /\ Cardinality(RowsWithKey(Loaded, k)) <= 1
  /\ \E i, j \in EntriesWithKey(k) :
        i < j /\ ~SamePrices(tradingview_data[i], tradingview_data[j])

\* C1: when the loaded table holds at most one row for key k and the batch
\* holds two or more entries with key k and different prices, the merged
\* table holds exactly one row with key k, carrying the open/high/low/close
\* of the last such entry, and that row is what the table file receives.
C1_LastUpsertWins ==
  Ran =>
    \A k \in BatchKeys :
      C1Case(k) =>
        /\ Cardinality(RowsWithKey(Merged, k)) = 1
        /\ \A i \in RowsWithKey(Merged, k) :
             /\ SamePrices(Merged.rows[i], LastEntry(k))
             /\ outcome = "updated" =>
                  \E j \in 1..Len(file.rows) :
                    /\ file.rows[j].ts_event = FormatTs(Merged.rows[i].ts_event)
                    /\ SamePrices(file.rows[j], LastEntry(k))

C1_Witness ==
  /\ Updated
  /\ \E k \in BatchKeys : C1Case(k) /\ RowsWithKey(Loaded, k) # {}
  /\ Len(Loaded.rows) > 1

\* ---------------------------------------------------------------- C2
Matched(i) == Key(Loaded.rows[i]) \in BatchKeys

\* C2: a loaded row whose key some batch entry matches keeps its timestamp
\* and the volume it had in the file it was loaded from, in the merged
\* table and in the table file that is written.
C2_VolumeOfMatchedRowKept ==
  Ran =>
    \A i \in 1..Len(Loaded.rows) :
      Matched(i) =>
        /\ Merged.rows[i].ts_event = Loaded.rows[i].ts_event
        /\ SameValue(Merged.rows[i].volume, startFile.rows[i].volume)
        /\ outcome = "updated" =>
             \E j \in 1..Len(file.rows) :
               /\ file.rows[j].ts_event = FormatTs(Loaded.rows[i].ts_event)
               /\ SameValue(file.rows[j].volume, startFile.rows[i].volume)

C2_Witness ==
  /\ Updated
  /\ \E i \in 1..Len(Loaded.rows) :
       /\ Matched(i)
       /\ ~IsZero(startFile.rows[i].volume)
       /\ ~SamePrices(Merged.rows[i], Loaded.rows[i])

\* ---------------------------------------------------------------- C3
\* C3 (as claimed): every batch entry whose key is not yet in the table adds
\* exactly one row, with that key, exactly the entry's open/high/low/close
\* and volume 0, whatever the column types of the loaded table.
C3_InsertKeepsValues ==
  Ran =>
    \A i \in 1..Len(tradingview_data) :
      LET d == tradingview_data[i]
          before == frames[i]
          after == frames[i + 1]
      IN RowsWithKey(before, DataKey(d)) = {} =>
           /\ Len(after.rows) = Len(before.rows) + 1
           /\ RowsWithKey(after, DataKey(d)) = {Len(after.rows)}
           /\ SamePrices(after.rows[Len(after.rows)], d)
           /\ IsZero(after.rows[Len(after.rows)].volume)

\* ---------------------------------------------------------------- C4
\* C4: the rows of the written table file are in ascending order of
\* canonical timestamp, compared as instants.
C4_PersistedSorted ==
  Updated =>
    \A i, j \in 1..Len(file.rows) :
      i < j => PersistedKey(file.rows[i]) <= PersistedKey(file.rows[j])

C4_Witness ==
  /\ Updated
  /\ \E i, j \in 1..Len(Merged.rows) :
       /\ i < j
       /\ Key(Merged.rows[i]) > Key(Merged.rows[j])
       /\ Merged.rows[i].ts_event.off # Merged.rows[j].ts_event.off
  /\ Len(Loaded.rows) > 0
  /\ Len(Merged.rows) > Len(Loaded.rows)

\* ---------------------------------------------------------------- C5
UniqueKeys(df) ==
  \A i, j \in 1..Len(df.rows) :
    Key(df.rows[i]) = Key(df.rows[j]) => i = j

\* C5 (as claimed): after loading and after every upsert the table holds at
\* most one row per canonical timestamp, and so does every table file that
\* update_csv writes.
C5_OneRowPerKey ==
  /\ Ran => \A n \in 1..Len(frames) : UniqueKeys(frames[n])
  /\ Updated =>
       \A i, j \in 1..Len(file.rows) :
         PersistedKey(file.rows[i]) = PersistedKey(file.rows[j]) => i = j

\* ---------------------------------------------------------------- C6
Accepted(line) == parse_tradingview_line(line) # None
RECURSIVE ParsedValid(_)
ParsedValid(lines) ==
  IF lines = <<>> THEN <<>>
  ELSE IF Accepted(Head(lines))
    THEN <<parse_tradingview_line(Head(lines))>> \o ParsedValid(Tail(lines))
    ELSE ParsedValid(Tail(lines))

\* C6: a rejected line never ends the input loop, every accepted line of the
\* run, before or after a rejected one, is in the batch in input order, and
\* the written table file holds a row for the key of each of them.
C6_RejectedLineSkipped ==
  /\ tradingview_data = ParsedValid(entered)
  /\ rejected = SelectSeq(entered, LAMBDA l : ~Accepted(l))
  /\ (pc = "input" \/ outcome \in {"updated", "write_failed", "no_valid_data"})
  /\ Updated =>
       \A n \in 1..Len(entered) :
         Accepted(entered[n]) =>
           \E j \in 1..Len(file.rows) :
             PersistedKey(file.rows[j]) =
               (DataKey(parse_tradingview_line(entered[n])) \div Second) * Second

C6_Witness ==
  /\ Updated
  /\ \E m, n \in 1..Len(entered) :
       m < n /\ ~Accepted(entered[m]) /\ Accepted(entered[n])

C6_WitnessRejectedLast ==
  /\ Updated
  /\ \E m, n \in 1..Len(entered) :
       m < n /\ Accepted(entered[m]) /\ ~Accepted(entered[n])

\* ---------------------------------------------------------------- C7
\* C7: when the table file is missing, empty or fails to load, update_csv
\* goes on from an empty table and the file it writes holds exactly one row
\* per key of the batch, with the prices of the last entry for that key and
\* volume 0, and no row of the unreadable file.
FloorSecond(k) == (k \div Second) * Second

C7_UnreadableTableIsEmpty ==
  (pc = "done" /\ tradingview_data # <<>> /\ LoadStatus(startFile) # "loaded") =>
    /\ frames # <<>>
    /\ Loaded.rows = <<>>
    /\ outcome \in {"updated", "write_failed"}
    /\ outcome = "updated" =>
         /\ Len(file.rows) = Cardinality(BatchKeys)
         /\ \A j \in 1..Len(file.rows) :
              \E k \in BatchKeys :
                /\ PersistedKey(file.rows[j]) = FloorSecond(k)
                /\ SamePrices(file.rows[j], LastEntry(k))
                /\ IsZero(file.rows[j].volume)

C7_Witness ==
  /\ Updated
  /\ LoadStatus(startFile) = "malformed"
  /\ startFile.rows # <<>>
  /\ Len(file.rows) = 2

C7_WitnessMissing ==
  Updated /\ startFile.kind = "missing" /\ run = 1

\* ---------------------------------------------------------------- C8
\* C8 (as claimed): every run that read its empty line attempted the final
\* write and reported its success or failure.
C8_AlwaysWrites ==
  pc = "done" => outcome \in {"updated", "write_failed"}

\* C8 (amended): a run that read its empty line after at least one accepted
\* line attempted the final write and reported success or failure; a run
\* with no accepted line reports that no valid data was entered and leaves
\* the table file as it found it.
C8_WritesWhenDataValid ==
  pc = "done" =>
    IF \E n \in 1..Len(entered) : Accepted(entered[n])
      THEN outcome \in {"updated", "write_failed"}
      ELSE outcome = "no_valid_data" /\ file = startFile

C8_Witness ==
  /\ pc = "done"
  /\ entered # <<>>
  /\ \A n \in 1..Len(entered) : ~Accepted(entered[n])
  /\ outcome = "no_valid_data"

C8_WitnessWriteFailed ==
  pc = "done" /\ outcome = "write_failed" /\ rejected # <<>>

\* ---------------------------------------------------------------- C9
NotFiniteDecimal(line) ==
  Len(line) = 5 /\ \E i \in 2..5 : line[i].k # "dec"

\* C9 (as claimed): a 5-field line with an open, high, low or close field
\* that is not a finite decimal number is rejected and adds nothing to the
\* batch.
C9_NonFiniteRejected ==
  \A n \in 1..Len(entered) :
    NotFiniteDecimal(entered[n]) =>
      /\ ~Accepted(entered[n])
      /\ \E m \in 1..Len(rejected) : rejected[m] = entered[n]

\* ---------------------------------------------------------------- C10
TsTextOf(line) == line[1]

C10Case ==
  /\ Updated
  /\ run > 1
  /\ prev.outcome = "updated"
  /\ Len(tradingview_data) = 1
  /\ \E n \in 1..Len(entered), m \in 1..Len(prev.entered) :
       /\ Accepted(entered[n])
       /\ Accepted(prev.entered[m])
       /\ TsTextOf(entered[n]) = TsTextOf(prev.entered[m])

OtherRows(f, k) == SelectSeq(f.rows, LAMBDA r : PersistedKey(r) # k)
SameRow(a, b) ==
  /\ a.ts_event = b.ts_event
  /\ \A c \in NumCols : SameValue(a[c], b[c])

\* C10 (as claimed): a second run whose only accepted line repeats the
\* timestamp text of a line the previous run persisted finds that row after
\* loading the file again: the table keeps its row count, and the rows with
\* other keys are written as they were.
C10_RerunMatchesPersistedRow ==
  C10Case =>
    LET k == DataKey(tradingview_data[1])
        old == OtherRows(startFile, k)
        new == OtherRows(file, k)
    IN /\ Len(file.rows) = Len(startFile.rows)
       /\ Len(new) = Len(old)
       /\ \A i \in 1..Len(old) : SameRow(new[i], old[i])
====
